---- MODULE Spec2Model ----
(***************************************************************************)
(* The asynchronous job lifecycle of the PPT generator: the FastAPI        *)
(* gateway (backend/main.py), the Celery task generate_pptx_workflow       *)
(* (backend/celery_app.py) with its Redis cancellation flag, and the pure  *)
(* helpers fix_duplicate_queries, count_numbered_points, truncate_content  *)
(* and generate_pptx.                                                      *)
(*                                                                         *)
(* Celery and Redis are modelled by their documented behaviour:            *)
(*   - a task's return value is stored with state SUCCESS, an exception    *)
(*     with state FAILURE, update_state stores the given state and meta;   *)
(*   - an id the result backend does not know reads as PENDING;            *)
(*   - revoke is a broadcast that reaches the worker or not (no worker     *)
(*     listening, solo pool busy); a worker that holds the id discards the *)
(*     task on receipt (REVOKED) and, with terminate=True, may kill the    *)
(*     process that runs it (REVOKED);                                     *)
(*   - SETEX stores a key that Redis deletes when its time to live ends.   *)
(* The gateway's calls of the store and the broker are taken not to raise;  *)
(* a call the worker makes may raise, like any other step of the workflow. *)
(***************************************************************************)
EXTENDS Integers, Sequences, FiniteSets, TLC

VARIABLES
    pc,            \* per job: position of the worker in generate_pptx_workflow
    status,        \* per job: the Celery state the result backend holds
    result,        \* per job: the Celery result / meta the backend holds
    cancelKey,     \* per job: the Redis key cancel_<task_id> exists
    revoked,       \* ids in the worker's revoked set (broadcast received)
    raw_text,      \* per job: argument raw_text of the task
    max_slides,    \* per job: argument / local max_slides of the task
    clean_text,    \* per job: local clean_text
    slides_data,   \* per job: local slides_data['slides']
    slide_images,  \* per job: local slide_images
    idx,           \* per job: loop index i of the visual loop
    gen_url,       \* per job: local gen_url of the current slide
    pptx_buffer,   \* per job: local pptx_buffer, the rendered deck
    files,         \* OUTPUT_DIR: the persisted decks
    http,          \* the HTTP exchange of the step just taken (NoHttp otherwise)
    trace,         \* per job, history: the pipeline events of the run, in order
    structOut,     \* per job, history: what the structurer returned
    observed,      \* per job, history: a poll of the run returned True
    termWrites,    \* per job, history: number of terminal states stored
    cancelQueued,  \* per job, history: cancel was called while the job was queued
    cancelMid,     \* per job, history: cancel was called while a slide was resolved
    cancelTwice,   \* history: the step just taken and the one before it were
                   \* both cancel_task for the same id
    dd_slides,     \* deduplication harness: the slide list
    dd_in,         \* deduplication harness: the list before the call
    dd_phase,      \* deduplication harness: "in" before the call, "out" after
    cn_text,       \* point-count harness: raw_text
    cn_hint,       \* point-count harness: the caller's max_slides
    cn_target,     \* point-count harness: max_slides handed to the structurer
    cn_phase,      \* point-count harness: "in" before the call, "out" after
    tr_content,    \* truncation harness: argument content
    tr_max,        \* truncation harness: argument max_length
    tr_out,        \* truncation harness: the value returned
    tr_phase       \* truncation harness: "in" before the call, "out" after

lifeVars == <<pc, status, result, cancelKey, revoked, raw_text, max_slides,
              clean_text, slides_data, slide_images, idx, gen_url, pptx_buffer,
              files, http,
              trace, structOut, observed, termWrites, cancelQueued, cancelMid,
              cancelTwice>>
ddVars == <<dd_slides, dd_in, dd_phase>>
cnVars == <<cn_text, cn_hint, cn_target, cn_phase>>
trVars == <<tr_content, tr_max, tr_out, tr_phase>>
vars == <<lifeVars, ddVars, cnVars, trVars>>

(***************************************************************************)
(* Bounds                                                                  *)
(***************************************************************************)
\* the longest slide list the structurer returns in the lifecycle
MaxSlides == 2
\* the longest slide list handed to fix_duplicate_queries on its own
MaxDedupLen == 3
\* the largest number of lines of a text handed to the point counter
MaxLines == 3
\* the longest text, and the largest max_length, handed to truncate_content
MaxTruncLen == 4

Jobs == {"j1"}

(***************************************************************************)
(* Text: a string is a sequence of one-character strings.                  *)
(***************************************************************************)
NL == "\n"
IsDigit(c) == c \in {"0", "1", "2", "3", "4", "5", "6", "7", "8", "9"}
IsPunct(c) == c \in {".", ")"}
IsSpace(c) == c \in {" ", "\t", NL}

RECURSIVE JoinLines(_)
\* '\n'.join(lines)
JoinLines(lines) ==
    IF Len(lines) = 0 THEN <<>>
    ELSE IF Len(lines) = 1 THEN lines[1]
    ELSE lines[1] \o <<NL>> \o JoinLines(Tail(lines))

RECURSIVE SplitLines(_)
\* content.split('\n')
SplitLines(s) ==
    IF \A p \in 1..Len(s) : s[p] # NL THEN <<s>>
    ELSE LET p == CHOOSE q \in 1..Len(s) :
                     s[q] = NL /\ \A r \in 1..(q - 1) : s[r] # NL
         IN  <<SubSeq(s, 1, p - 1)>> \o SplitLines(SubSeq(s, p + 1, Len(s)))

RECURSIVE strip(_)
\* line.strip()
strip(s) ==
    IF s = <<>> THEN s
    ELSE IF IsSpace(s[1]) THEN strip(Tail(s))
    ELSE IF IsSpace(s[Len(s)]) THEN strip(SubSeq(s, 1, Len(s) - 1))
    ELSE s

\* is_html for a content without "<": the pattern needs one
is_html(content) == \E p \in 1..Len(content) : content[p] = "<"

\* clean_html, the branch of a content that is not HTML: the lines are
\* stripped, the empty ones dropped, the rest joined
clean_html(html_content) ==
    LET lines == SplitLines(html_content)
        kept == SelectSeq([k \in 1..Len(lines) |-> strip(lines[k])],
                          LAMBDA line : line # <<>>)
    IN  JoinLines(kept)

\* config.MAX_HTML_LENGTH
MAX_HTML_LENGTH == 20000

RECURSIVE rfind(_, _, _)
\* str.rfind(c) over s[1..k]: the 0-based index of the last c, or -1
rfind(s, c, k) ==
    IF k = 0 THEN -1
    ELSE IF s[k] = c THEN k - 1
    ELSE rfind(s, c, k - 1)

truncate_content(content, max_length) ==
    IF Len(content) <= max_length THEN content
    ELSE LET truncated == SubSeq(content, 1, max_length)
             last_space == rfind(truncated, " ", Len(truncated))
             cut == IF last_space > 0 THEN SubSeq(truncated, 1, last_space)
                    ELSE truncated
         IN cut \o <<".", ".", ".">>

(***************************************************************************)
(* count_numbered_points: re.findall(r'^\s*\d+[\.\)]\s+', text,            *)
(* re.MULTILINE).  Positions are 1-based; p = Len(s) + 1 is the end.       *)
(***************************************************************************)
RECURSIVE SkipSpace(_, _)
\* the position after the longest run of whitespace starting at p (greedy \s*)
SkipSpace(s, p) ==
    IF p <= Len(s) /\ IsSpace(s[p]) THEN SkipSpace(s, p + 1) ELSE p

RECURSIVE SkipDigits(_, _)
\* the position after the longest run of digits starting at p (greedy \d+)
SkipDigits(s, p) ==
    IF p <= Len(s) /\ IsDigit(s[p]) THEN SkipDigits(s, p + 1) ELSE p

\* ^ under re.MULTILINE: the start of the text or just after a newline
AtLineStart(s, p) == p = 1 \/ (p > 1 /\ p - 1 <= Len(s) /\ s[p - 1] = NL)

\* The end (exclusive) of the match of the pattern that starts at p, or 0 when
\* none starts there.  Every quantified class excludes the character that must
\* follow it, so the greedy match is the only candidate: no backtracking helps.
MatchAt(s, p) ==
    IF ~AtLineStart(s, p) THEN 0
    ELSE LET a == SkipSpace(s, p)
             b == SkipDigits(s, a)
         IN IF b = a THEN 0
            ELSE IF ~(b <= Len(s) /\ IsPunct(s[b])) THEN 0
            ELSE LET e == SkipSpace(s, b + 1)
                 IN IF e = b + 1 THEN 0 ELSE e

RECURSIVE FindAll(_, _)
\* the number of non-overlapping matches found scanning from p, left to right
FindAll(s, p) ==
    IF p > Len(s) THEN 0
    ELSE LET e == MatchAt(s, p)
         IN IF e = 0 THEN FindAll(s, p + 1) ELSE 1 + FindAll(s, e)

count_numbered_points(text) == FindAll(text, 1)

\* generate_pptx_workflow, lines 126-132: the text and the slide count handed
\* to the structurer for the task arguments (raw, hint)
CleanText(raw) == truncate_content(raw, MAX_HTML_LENGTH)
TargetSlides(raw, hint) ==
    LET detected_points == count_numbered_points(CleanText(raw))
    IN IF detected_points > 0 THEN detected_points ELSE hint

(***************************************************************************)
(* fix_duplicate_queries                                                   *)
(***************************************************************************)
fallbacks == <<
    "geometric compass drawing circles", "vintage abacus with wooden beads",
    "neon mathematical symbols glowing", "graph paper with equations",
    "scientific calculator closeup", "protractor measuring angles",
    "chalkboard with colorful formulas", "digital LED number display",
    "ruler and pencil on engineering drawing", "mathematical textbook open",
    "student solving problem on tablet", "3D geometric shapes floating",
    "Fibonacci spiral in nature", "binary code matrix", "ancient counting stones",
    "math teacher at whiteboard", "trigonometry triangle diagram",
    "algebra symbols on paper", "statistics graph chart", "geometry set tools" >>

RECURSIVE DedupFrom_ForgetsFallback(_, _, _, _)
\* variant: the fallback given to a slide is not added to seen
DedupFrom_ForgetsFallback(slides, k, seen, fb_idx) ==
    IF k > Len(slides) THEN slides
    ELSE LET q == slides[k].visual_query
         IN IF q \in seen
            THEN LET fb == fallbacks[(fb_idx % Len(fallbacks)) + 1]
                     s2 == [slides EXCEPT ![k].visual_query = fb]
                 IN DedupFrom_ForgetsFallback(s2, k + 1, seen, fb_idx + 1)
            ELSE DedupFrom_ForgetsFallback(slides, k + 1, seen \cup {q}, fb_idx)

RECURSIVE DedupFrom_DropsRepeats(_, _, _, _)
\* variant: a slide whose query was seen is taken out of the list
DedupFrom_DropsRepeats(slides, k, seen, fb_idx) ==
    IF k > Len(slides) THEN slides
    ELSE LET q == slides[k].visual_query
         IN IF q \in seen
            THEN DedupFrom_DropsRepeats(
                     SubSeq(slides, 1, k - 1) \o SubSeq(slides, k + 1, Len(slides)),
                     k, seen, fb_idx + 1)
            ELSE DedupFrom_DropsRepeats(slides, k + 1, seen \cup {q}, fb_idx)

RECURSIVE DedupFrom(_, _, _, _)
\* the loop of fix_duplicate_queries from slide k on (1-based), with the set
\* seen and the counter fb_idx as the loop holds them
DedupFrom(slides, k, seen, fb_idx) ==
    IF k > Len(slides) THEN slides
    ELSE LET q == slides[k].visual_query
         IN IF q \in seen
            THEN LET fb == fallbacks[(fb_idx % Len(fallbacks)) + 1]
                     s2 == [slides EXCEPT ![k].visual_query = fb]
                 IN DedupFrom(s2, k + 1, seen \cup {fb}, fb_idx + 1)
            ELSE DedupFrom(slides, k + 1, seen \cup {q}, fb_idx)

fix_duplicate_queries(slides) == DedupFrom(slides, 1, {}, 0)

(***************************************************************************)
(* generate_pptx: one rendered slide per element of slides_data['slides'], *)
(* with the image at the same index when slide_images has one              *)
(***************************************************************************)
NoImage == <<>>

\* variant: only the slides that have an image are rendered
generate_pptx_SkipsImageless(slides, images) ==
    LET kept == SelectSeq([k \in 1..Len(slides) |-> k],
                          LAMBDA k : k <= Len(images) /\ images[k] # NoImage)
    IN [n \in 1..Len(kept) |-> [slide |-> slides[kept[n]], image |-> images[kept[n]]]]

generate_pptx(slides, images) ==
    [k \in 1..Len(slides) |->
        [slide |-> slides[k],
         image |-> IF Len(images) > 0 /\ k <= Len(images)
                   THEN images[k] ELSE NoImage]]

(***************************************************************************)
(* The job lifecycle                                                       *)
(***************************************************************************)
\* what a client may submit: the form fields file, html_content and
\* max_slides. A file is its extension, whether its bytes can be read as that
\* format, and the text they hold
T_plain == <<"a">>
T_numbered == <<"1", ".", " ", "a", NL, "2", ".", " ", "b">>
NoFile == [ext |-> ""]
File(ext, readable, text) == [ext |-> ext, readable |-> readable, text |-> text]
Form(file, html_content, n) ==
    [file |-> file, html_content |-> html_content, max_slides |-> n]
Submissions ==
    { Form(NoFile, <<>>, 1),
      Form(NoFile, <<" ", NL, " ">>, 1),
      Form(NoFile, <<" ", "a", " ", NL>>, 1),
      Form(NoFile, T_numbered, 5),
      Form(File("txt", TRUE, <<>>), <<>>, 1),
      Form(File("txt", TRUE, T_plain), <<" ">>, 1),
      Form(File("pdf", FALSE, <<>>), <<>>, 1),
      Form(File("docx", TRUE, T_numbered), <<>>, 5),
      Form(File("exe", TRUE, T_plain), <<>>, 1) }

\* extract_text_from_file: the text of a pdf, docx or txt file; any other
\* extension and any file the reader cannot read end in HTTPException(500)
Raises == [raises |-> TRUE]
Returns(text) == [raises |-> FALSE, text |-> text]
extract_text_from_file(file) ==
    IF file.ext \in {"pdf", "docx", "txt"} /\ file.readable
    THEN Returns(file.text)
    ELSE Raises

\* lines 84-90 of generate_pptx_endpoint: the text of the file if there is
\* one, else of html_content if it is not empty, else HTTPException(400)
Ingest(form) ==
    IF form.file # NoFile THEN extract_text_from_file(form.file)
    ELSE IF form.html_content # <<>> THEN Returns(clean_html(form.html_content))
    ELSE Raises

\* what the structurer may return: any number of slides up to the bound,
\* whatever count was asked for; a slide's title is its position, so that the
\* order of slides can be told
LifeQueries == {"abstract background", "city skyline"}
Slide(t, q) == [title |-> t, visual_query |-> q]
StructurerOutputs ==
    UNION {{[k \in 1..n |-> Slide(k, f[k])] : f \in [1..n -> LifeQueries]} : n \in 0..MaxSlides}

NoHttp == [kind |-> "none"]
NoResult == [kind |-> "none"]
NoUrl == <<>>
Url(i) == <<"imageURL", i>>
ImagePath(i) == <<"runware", i>>
Filename(j) == <<"presentation", j>>

Event(e, a, b) == [ev |-> e, a |-> a, b |-> b]

Running(j) == pc[j] \notin {"absent", "queued", "done"}

\* the state of the job in the terms of the lifecycle Queued -> Running ->
\* {Success, Failure, Cancelled}, read from what the result backend holds
JobState(j) ==
    IF pc[j] = "absent" THEN "Unknown"
    ELSE IF status[j] = "PENDING" THEN "Queued"
    ELSE IF status[j] \in {"STARTED", "PROGRESS"} THEN "Running"
    ELSE IF status[j] = "FAILURE" THEN "Failure"
    ELSE IF status[j] = "REVOKED" THEN "Cancelled"
    ELSE IF "status" \in DOMAIN result[j] /\ result[j].status = "CANCELLED" THEN "Cancelled"
    ELSE "Success"

IsTerminal(j) == JobState(j) \in {"Success", "Failure", "Cancelled"}

\* the state before any request, for the job ids J
LifeInitOf(J) ==
    /\ pc = [j \in J |-> "absent"]
    /\ status = [j \in J |-> "PENDING"]
    /\ result = [j \in J |-> NoResult]
    /\ cancelKey = [j \in J |-> FALSE]
    /\ revoked = {}
    /\ raw_text = [j \in J |-> <<>>]
    /\ max_slides = [j \in J |-> 0]
    /\ clean_text = [j \in J |-> <<>>]
    /\ slides_data = [j \in J |-> <<>>]
    /\ slide_images = [j \in J |-> <<>>]
    /\ idx = [j \in J |-> 0]
    /\ gen_url = [j \in J |-> NoUrl]
    /\ pptx_buffer = [j \in J |-> <<>>]
    /\ files = {}
    /\ http = NoHttp
    /\ trace = [j \in J |-> <<>>]
    /\ structOut = [j \in J |-> <<>>]
    /\ observed = [j \in J |-> FALSE]
    /\ termWrites = [j \in J |-> 0]
    /\ cancelQueued = [j \in J |-> FALSE]
    /\ cancelMid = [j \in J |-> FALSE]
    /\ cancelTwice = FALSE

LifeInit == LifeInitOf(Jobs)

DedupIdle == dd_slides = <<>> /\ dd_in = <<>> /\ dd_phase = "off"
CountIdle == cn_text = <<>> /\ cn_hint = 0 /\ cn_target = 0 /\ cn_phase = "off"
TruncIdle == tr_content = <<>> /\ tr_max = 0 /\ tr_out = <<>> /\ tr_phase = "off"

\* what every step but cancel_task does to the variables outside the
\* lifecycle and to the record of repeated cancels
GatewayFrame == UNCHANGED <<ddVars, cnVars, trVars>> /\ cancelTwice' = FALSE

\* the positions at which slide idx is being resolved (lines 155-190)
SlideSteps == {"L155", "L166", "L168", "L171", "L173"}
locals == <<raw_text, max_slides, clean_text, slides_data, slide_images, idx,
            gen_url, pptx_buffer>>
history == <<trace, structOut, observed, termWrites, cancelQueued, cancelMid>>

(***************************************************************************)
(* The gateway (backend/main.py)                                           *)
(***************************************************************************)
\* POST /generate-pptx: an exception of the ingestion, the HTTPException(400)
\* of a form without content included, is caught by the handler's own except
\* and answered as a 500; any text the ingestion returns is enqueued and the
\* task id returned
generate_pptx_endpoint(j) ==
    /\ \E form \in Submissions :
          IF Ingest(form).raises
          THEN /\ http' = [kind |-> "submit", code |-> 500, form |-> form]
               /\ UNCHANGED <<pc, raw_text, max_slides>>
          ELSE /\ pc[j] = "absent"
               /\ raw_text' = [raw_text EXCEPT ![j] = Ingest(form).text]
               /\ max_slides' = [max_slides EXCEPT ![j] = form.max_slides]
               /\ pc' = [pc EXCEPT ![j] = "queued"]
               /\ http' = [kind |-> "submit", code |-> 200, task_id |-> j,
                           form |-> form]
    /\ UNCHANGED <<status, result, cancelKey, revoked, clean_text, slides_data,
                   slide_images, idx, gen_url, pptx_buffer, files, history>>
    /\ GatewayFrame

\* GET /task-status/{task_id}
get_task_status(j) ==
    /\ http' = [kind |-> "status", code |-> 200, task_id |-> j,
                status |-> status[j], result |-> result[j]]
    /\ UNCHANGED <<pc, status, result, cancelKey, revoked, locals, files, history>>
    /\ GatewayFrame

\* variant: the handler also stores REVOKED in the result backend itself
cancel_task_StoresRevoked(j) ==
    /\ cancelKey' = [cancelKey EXCEPT ![j] = TRUE]
    /\ \/ revoked' = revoked \cup {j}
       \/ revoked' = revoked
    /\ cancelQueued' = [cancelQueued EXCEPT ![j] = @ \/ pc[j] = "queued"]
    /\ cancelMid' = [cancelMid EXCEPT ![j] = @ \/ pc[j] \in SlideSteps]
    /\ cancelTwice' = (http.kind = "cancel" /\ http.task_id = j)
    /\ status' = [status EXCEPT ![j] = "REVOKED"]
    /\ http' = [kind |-> "cancel", code |-> 200, task_id |-> j]
    /\ UNCHANGED <<pc, result, locals, files, trace, structOut, observed,
                   termWrites>>
    /\ UNCHANGED <<ddVars, cnVars, trVars>>

\* variant: the handler refuses an id that has no job and a job that has ended
cancel_task_RefusesFinished(j) ==
    /\ IF pc[j] \in {"absent", "done"}
       THEN /\ http' = [kind |-> "cancel", code |-> 400, task_id |-> j]
            /\ UNCHANGED <<cancelKey, revoked>>
       ELSE /\ cancelKey' = [cancelKey EXCEPT ![j] = TRUE]
            /\ \/ revoked' = revoked \cup {j}
               \/ revoked' = revoked
            /\ http' = [kind |-> "cancel", code |-> 200, task_id |-> j]
    /\ cancelQueued' = [cancelQueued EXCEPT ![j] = @ \/ pc[j] = "queued"]
    /\ cancelMid' = [cancelMid EXCEPT ![j] = @ \/ pc[j] \in SlideSteps]
    /\ cancelTwice' = (http.kind = "cancel" /\ http.task_id = j)
    /\ UNCHANGED <<pc, status, result, locals, files, trace, structOut, observed,
                   termWrites>>
    /\ UNCHANGED <<ddVars, cnVars, trVars>>

\* variant: the handler also removes the deck of the job from OUTPUT_DIR
cancel_task_RemovesDeck(j) ==
    /\ cancelKey' = [cancelKey EXCEPT ![j] = TRUE]
    /\ \/ revoked' = revoked \cup {j}
       \/ revoked' = revoked
    /\ files' = {f \in files : f.name # Filename(j)}
    /\ cancelQueued' = [cancelQueued EXCEPT ![j] = @ \/ pc[j] = "queued"]
    /\ cancelMid' = [cancelMid EXCEPT ![j] = @ \/ pc[j] \in SlideSteps]
    /\ cancelTwice' = (http.kind = "cancel" /\ http.task_id = j)
    /\ http' = [kind |-> "cancel", code |-> 200, task_id |-> j]
    /\ UNCHANGED <<pc, status, result, locals, trace, structOut, observed,
                   termWrites>>
    /\ UNCHANGED <<ddVars, cnVars, trVars>>

\* variant: the handler flips the key: a call that finds it deletes it
cancel_task_FlipsKey(j) ==
    /\ cancelKey' = [cancelKey EXCEPT ![j] = ~@]
    /\ \/ revoked' = revoked \cup {j}
       \/ revoked' = revoked
    /\ cancelQueued' = [cancelQueued EXCEPT ![j] = @ \/ pc[j] = "queued"]
    /\ cancelMid' = [cancelMid EXCEPT ![j] = @ \/ pc[j] \in SlideSteps]
    /\ cancelTwice' = (http.kind = "cancel" /\ http.task_id = j)
    /\ http' = [kind |-> "cancel", code |-> 200, task_id |-> j]
    /\ UNCHANGED <<pc, status, result, locals, files, trace, structOut, observed,
                   termWrites>>
    /\ UNCHANGED <<ddVars, cnVars, trVars>>

\* variant: the key does not carry the task id: one flag for all tasks
cancel_task_OneKeyForAll(j) ==
    /\ cancelKey' = [k \in DOMAIN cancelKey |-> TRUE]
    /\ \/ revoked' = revoked \cup {j}
       \/ revoked' = revoked
    /\ cancelQueued' = [cancelQueued EXCEPT ![j] = @ \/ pc[j] = "queued"]
    /\ cancelMid' = [cancelMid EXCEPT ![j] = @ \/ pc[j] \in SlideSteps]
    /\ cancelTwice' = (http.kind = "cancel" /\ http.task_id = j)
    /\ http' = [kind |-> "cancel", code |-> 200, task_id |-> j]
    /\ UNCHANGED <<pc, status, result, locals, files, trace, structOut, observed,
                   termWrites>>
    /\ UNCHANGED <<ddVars, cnVars, trVars>>

\* POST /cancel-task/{task_id}: SETEX cancel_<id> 3600 "1", then revoke, whose
\* broadcast the worker receives or not
cancel_task(j) ==
    /\ cancelKey' = [cancelKey EXCEPT ![j] = TRUE]
    /\ \/ revoked' = revoked \cup {j}
       \/ revoked' = revoked
    /\ cancelQueued' = [cancelQueued EXCEPT ![j] = @ \/ pc[j] = "queued"]
    /\ cancelMid' = [cancelMid EXCEPT ![j] = @ \/ pc[j] \in SlideSteps]
    /\ cancelTwice' = (http.kind = "cancel" /\ http.task_id = j)
    /\ http' = [kind |-> "cancel", code |-> 200, task_id |-> j]
    /\ UNCHANGED <<pc, status, result, locals, files, trace, structOut, observed,
                   termWrites>>
    /\ UNCHANGED <<ddVars, cnVars, trVars>>

\* GET /download/{task_id}: Path(None) raises TypeError when the stored result
\* has no output_path, which FastAPI answers as a 500
download_pptx(j) ==
    /\ IF status[j] = "SUCCESS"
       THEN IF "output_path" \notin DOMAIN result[j]
            THEN http' = [kind |-> "download", code |-> 500, task_id |-> j]
            ELSE IF \E f \in files : f.name = result[j].output_path
            THEN http' = [kind |-> "download", code |-> 200, task_id |-> j,
                          filename |-> result[j].filename,
                          bytes |-> (CHOOSE f \in files : f.name = result[j].output_path).deck]
            ELSE http' = [kind |-> "download", code |-> 404, task_id |-> j]
       ELSE http' = [kind |-> "download", code |-> 400, task_id |-> j,
                     detail |-> <<"Task is not finished. Status: ", status[j]>>]
    /\ UNCHANGED <<pc, status, result, cancelKey, revoked, locals, files, history>>
    /\ GatewayFrame

\* Redis deletes cancel_<id> when the time to live given by cancel_task ends
Expire(j) ==
    /\ cancelKey[j]
    /\ cancelKey' = [cancelKey EXCEPT ![j] = FALSE]
    /\ http' = NoHttp
    /\ UNCHANGED <<pc, status, result, revoked, locals, files, history>>
    /\ GatewayFrame

(***************************************************************************)
(* The worker (backend/celery_app.py)                                      *)
(***************************************************************************)
\* The steps of the try block whose exceptions nothing catches before the
\* handler of lines 203-206: all of them but the image generation and the
\* download, which catch their own
RaisePoints == {"L125", "L134", "L137", "L139", "L141", "L147", "L155", "L166",
                "L171", "L194", "L198"}

\* the source line a position stands for
LineOf(p) ==
    CASE p = "L125" -> 125 [] p = "L134" -> 134 [] p = "L137" -> 137
      [] p = "L139" -> 139 [] p = "L141" -> 141 [] p = "L147" -> 147
      [] p = "L155" -> 155 [] p = "L166" -> 166 [] p = "L168" -> 168
      [] p = "L171" -> 171 [] p = "L173" -> 173 [] p = "L194" -> 194
      [] p = "L198" -> 198 [] p = "L201" -> 201 [] OTHER -> 0

\* self.update_state(state, meta)
update_state(j, state, meta) ==
    /\ status' = [status EXCEPT ![j] = state]
    /\ result' = [result EXCEPT ![j] = meta]

\* Celery stores the value the task returns with state SUCCESS
StoreReturn(j, value) ==
    /\ status' = [status EXCEPT ![j] = "SUCCESS"]
    /\ result' = [result EXCEPT ![j] = value]
    /\ termWrites' = [termWrites EXCEPT ![j] = @ + 1]
    /\ pc' = [pc EXCEPT ![j] = "done"]

Log(j, e) == trace' = [trace EXCEPT ![j] = Append(@, e)]

\* is_task_cancelled: the Redis flag, then the Celery state
is_task_cancelled(j) == cancelKey[j] \/ status[j] = "REVOKED"

\* if is_task_cancelled(self): return ret -- at position here, going on at next
PollAt(j, here, next, ret) ==
    /\ pc[j] = here
    /\ Log(j, Event("poll", 0, 0))
    /\ IF is_task_cancelled(j)
       THEN /\ StoreReturn(j, ret)
            /\ observed' = [observed EXCEPT ![j] = TRUE]
       ELSE /\ pc' = [pc EXCEPT ![j] = next]
            /\ UNCHANGED <<status, result, termWrites, observed>>
    /\ http' = NoHttp
    /\ UNCHANGED <<cancelKey, revoked, locals, files, structOut, cancelQueued, cancelMid>>
    /\ GatewayFrame

\* The worker takes the task from the queue: a task whose id is in the revoked
\* set is discarded as REVOKED, any other is started (task_track_started) and
\* generate_pptx_task runs the workflow
WorkerReceive(j) ==
    /\ pc[j] = "queued"
    /\ IF j \in revoked
       THEN /\ update_state(j, "REVOKED", [exc |-> "TaskRevokedError"])
            /\ termWrites' = [termWrites EXCEPT ![j] = @ + 1]
            /\ pc' = [pc EXCEPT ![j] = "done"]
       ELSE /\ update_state(j, "STARTED", NoResult)
            /\ pc' = [pc EXCEPT ![j] = "L125"]
            /\ UNCHANGED termWrites
    /\ http' = NoHttp
    /\ UNCHANGED <<cancelKey, revoked, locals, files, trace, structOut, observed,
                   cancelQueued, cancelMid>>
    /\ GatewayFrame

\* revoke(terminate=True, signal='SIGKILL') on a pool that can kill: the
\* process running the task dies and the worker stores REVOKED
Terminate(j) ==
    /\ Running(j)
    /\ j \in revoked
    /\ update_state(j, "REVOKED", [exc |-> "TaskRevokedError"])
    /\ termWrites' = [termWrites EXCEPT ![j] = @ + 1]
    /\ pc' = [pc EXCEPT ![j] = "done"]
    /\ http' = NoHttp
    /\ UNCHANGED <<cancelKey, revoked, locals, files, trace, structOut, observed,
                   cancelQueued, cancelMid>>
    /\ GatewayFrame

\* lines 125-132: progress 'Cleaning content...', truncation, point count and
\* the override of max_slides
Clean(j) ==
    /\ pc[j] = "L125"
    /\ update_state(j, "PROGRESS", [message |-> "Cleaning content..."])
    /\ clean_text' = [clean_text EXCEPT ![j] = CleanText(raw_text[j])]
    /\ max_slides' = [max_slides EXCEPT ![j] = TargetSlides(raw_text[j], @)]
    /\ pc' = [pc EXCEPT ![j] = "L134"]
    /\ http' = NoHttp
    /\ UNCHANGED <<cancelKey, revoked, raw_text, slides_data, slide_images, idx,
                   gen_url, pptx_buffer, files, history>>
    /\ GatewayFrame

\* variant: the check of line 134 does not look at the signal
Poll134_Blind(j) ==
    /\ pc[j] = "L134"
    /\ Log(j, Event("poll", 0, 0))
    /\ pc' = [pc EXCEPT ![j] = "L137"]
    /\ http' = NoHttp
    /\ UNCHANGED <<status, result, termWrites, observed, cancelKey, revoked,
                   locals, files, structOut, cancelQueued, cancelMid>>
    /\ GatewayFrame

\* line 134
Poll134(j) == PollAt(j, "L134", "L137", [status |-> "CANCELLED"])

\* lines 136-137: the structurer returns a slide list of any length
Structure(j) ==
    /\ pc[j] = "L137"
    /\ \E out \in StructurerOutputs :
          /\ slides_data' = [slides_data EXCEPT ![j] = out]
          /\ structOut' = [structOut EXCEPT ![j] = out]
    /\ Log(j, Event("structurer", max_slides[j], 0))
    /\ pc' = [pc EXCEPT ![j] = "L139"]
    /\ http' = NoHttp
    /\ UNCHANGED <<status, result, cancelKey, revoked, raw_text, max_slides,
                   clean_text, slide_images, idx, gen_url, pptx_buffer, files,
                   observed, termWrites, cancelQueued, cancelMid>>
    /\ GatewayFrame

\* line 139
Poll139(j) == PollAt(j, "L139", "L141", [status |-> "CANCELLED"])

\* lines 141-143: fix_duplicate_queries rewrites the list in place
Dedup(j) ==
    /\ pc[j] = "L141"
    /\ slides_data' = [slides_data EXCEPT ![j] = fix_duplicate_queries(@)]
    /\ slide_images' = [slide_images EXCEPT ![j] = <<>>]
    /\ idx' = [idx EXCEPT ![j] = 0]
    /\ pc' = [pc EXCEPT ![j] = "L147"]
    /\ http' = NoHttp
    /\ UNCHANGED <<status, result, cancelKey, revoked, raw_text, max_slides,
                   clean_text, gen_url, pptx_buffer, files, history>>
    /\ GatewayFrame

\* variant: progress is reported for the first slide only
Progress_OnlyFirst(j) ==
    /\ pc[j] = "L147"
    /\ idx[j] < Len(slides_data[j])
    /\ IF idx[j] = 0
       THEN /\ update_state(j, "PROGRESS",
                   [message |-> "Processing slide", current |-> idx[j] + 1,
                    total |-> Len(slides_data[j])])
            /\ Log(j, Event("progress", idx[j] + 1, Len(slides_data[j])))
       ELSE UNCHANGED <<status, result, trace>>
    /\ pc' = [pc EXCEPT ![j] = "L155"]
    /\ http' = NoHttp
    /\ UNCHANGED <<cancelKey, revoked, locals, files, structOut, observed,
                   termWrites, cancelQueued, cancelMid>>
    /\ GatewayFrame

\* variant: the report carries the loop index as it is, counted from 0
Progress_ZeroBased(j) ==
    /\ pc[j] = "L147"
    /\ idx[j] < Len(slides_data[j])
    /\ update_state(j, "PROGRESS",
           [message |-> "Processing slide", current |-> idx[j],
            total |-> Len(slides_data[j])])
    /\ Log(j, Event("progress", idx[j], Len(slides_data[j])))
    /\ pc' = [pc EXCEPT ![j] = "L155"]
    /\ http' = NoHttp
    /\ UNCHANGED <<cancelKey, revoked, locals, files, structOut, observed,
                   termWrites, cancelQueued, cancelMid>>
    /\ GatewayFrame

\* lines 147-152: the next slide of the loop, and its progress report
Progress(j) ==
    /\ pc[j] = "L147"
    /\ idx[j] < Len(slides_data[j])
    /\ update_state(j, "PROGRESS",
           [message |-> "Processing slide", current |-> idx[j] + 1,
            total |-> Len(slides_data[j])])
    /\ Log(j, Event("progress", idx[j] + 1, Len(slides_data[j])))
    /\ pc' = [pc EXCEPT ![j] = "L155"]
    /\ http' = NoHttp
    /\ UNCHANGED <<cancelKey, revoked, locals, files, structOut, observed,
                   termWrites, cancelQueued, cancelMid>>
    /\ GatewayFrame

\* variant: the check stores the cancelled outcome and the loop goes on
Poll155_StoresAndGoesOn(j) ==
    /\ pc[j] = "L155"
    /\ Log(j, Event("poll", 0, 0))
    /\ IF is_task_cancelled(j)
       THEN /\ status' = [status EXCEPT ![j] = "SUCCESS"]
            /\ result' = [result EXCEPT ![j] = [status |-> "CANCELLED"]]
            /\ termWrites' = [termWrites EXCEPT ![j] = @ + 1]
            /\ observed' = [observed EXCEPT ![j] = TRUE]
       ELSE UNCHANGED <<status, result, termWrites, observed>>
    /\ pc' = [pc EXCEPT ![j] = "L166"]
    /\ http' = NoHttp
    /\ UNCHANGED <<cancelKey, revoked, locals, files, structOut, cancelQueued, cancelMid>>
    /\ GatewayFrame

\* lines 155-157
Poll155(j) ==
    PollAt(j, "L155", "L166",
           [status |-> "CANCELLED", message |-> "Generation stopped by user."])

\* line 166
Poll166(j) == PollAt(j, "L166", "L168", [status |-> "CANCELLED"])

\* line 168: generate_image_runware_async returns a URL or None, never raises
Runware(j) ==
    /\ pc[j] = "L168"
    /\ \E u \in {NoUrl, Url(idx[j])} : gen_url' = [gen_url EXCEPT ![j] = u]
    /\ Log(j, Event("resolver", idx[j], 0))
    /\ pc' = [pc EXCEPT ![j] = "L171"]
    /\ http' = NoHttp
    /\ UNCHANGED <<status, result, cancelKey, revoked, raw_text, max_slides,
                   clean_text, slides_data, slide_images, idx, pptx_buffer, files,
                   structOut, observed, termWrites, cancelQueued, cancelMid>>
    /\ GatewayFrame

\* variant: the check after the resolver sees the signal and does not return
Poll171_NoReturn(j) ==
    /\ pc[j] = "L171"
    /\ Log(j, Event("poll", 0, 0))
    /\ observed' = [observed EXCEPT ![j] = @ \/ is_task_cancelled(j)]
    /\ pc' = [pc EXCEPT ![j] = "L173"]
    /\ http' = NoHttp
    /\ UNCHANGED <<status, result, termWrites, cancelKey, revoked, locals, files,
                   structOut, cancelQueued, cancelMid>>
    /\ GatewayFrame

\* variant: the check after the resolver waits for as long as the signal is set
Poll171_WaitsWhileSet(j) ==
    /\ pc[j] = "L171"
    /\ IF is_task_cancelled(j)
       THEN UNCHANGED <<pc, trace>>
       ELSE /\ Log(j, Event("poll", 0, 0))
            /\ pc' = [pc EXCEPT ![j] = "L173"]
    /\ http' = NoHttp
    /\ UNCHANGED <<status, result, termWrites, observed, cancelKey, revoked,
                   locals, files, structOut, cancelQueued, cancelMid>>
    /\ GatewayFrame

\* line 171
Poll171(j) == PollAt(j, "L171", "L173", [status |-> "CANCELLED"])

\* variant: a failed download is not caught and reaches the handler
Download_Raises(j) ==
    /\ pc[j] = "L173"
    /\ \/ /\ \E slide_img_path \in (IF gen_url[j] = NoUrl THEN {NoImage}
                                    ELSE {ImagePath(idx[j])}) :
                slide_images' = [slide_images EXCEPT ![j] =
                                    Append(@, slide_img_path)]
          /\ Log(j, Event("append", idx[j], 0))
          /\ idx' = [idx EXCEPT ![j] = @ + 1]
          /\ pc' = [pc EXCEPT ![j] = "L147"]
          /\ UNCHANGED <<status, result, termWrites>>
       \/ /\ gen_url[j] # NoUrl
          /\ update_state(j, "FAILURE", [exc |-> "Exception"])
          /\ Log(j, Event("raise", LineOf(pc[j]), 0))
          /\ termWrites' = [termWrites EXCEPT ![j] = @ + 1]
          /\ pc' = [pc EXCEPT ![j] = "done"]
          /\ UNCHANGED <<slide_images, idx>>
    /\ http' = NoHttp
    /\ UNCHANGED <<cancelKey, revoked, raw_text, max_slides, clean_text,
                   slides_data, gen_url, pptx_buffer, files, structOut, observed,
                   cancelQueued, cancelMid>>
    /\ GatewayFrame

\* lines 173-190: with a URL the image is downloaded and saved, or the download
\* fails (status other than 200, or an exception that is caught); either way
\* one entry is appended to slide_images
Download(j) ==
    /\ pc[j] = "L173"
    /\ \E slide_img_path \in (IF gen_url[j] = NoUrl THEN {NoImage}
                              ELSE {NoImage, ImagePath(idx[j])}) :
          slide_images' = [slide_images EXCEPT ![j] = Append(@, slide_img_path)]
    /\ Log(j, Event("append", idx[j], 0))
    /\ idx' = [idx EXCEPT ![j] = @ + 1]
    /\ pc' = [pc EXCEPT ![j] = "L147"]
    /\ http' = NoHttp
    /\ UNCHANGED <<status, result, cancelKey, revoked, raw_text, max_slides,
                   clean_text, slides_data, gen_url, pptx_buffer, files,
                   structOut, observed, termWrites, cancelQueued, cancelMid>>
    /\ GatewayFrame

\* variant: with no slide the run returns at once, without a deck
Finalize_NothingToRender(j) ==
    /\ pc[j] = "L147"
    /\ idx[j] >= Len(slides_data[j])
    /\ IF slides_data[j] = <<>>
       THEN StoreReturn(j, [status |-> "SUCCESS"])
       ELSE /\ update_state(j, "PROGRESS", [message |-> "Finalizing PowerPoint..."])
            /\ pc' = [pc EXCEPT ![j] = "L194"]
            /\ UNCHANGED termWrites
    /\ http' = NoHttp
    /\ UNCHANGED <<cancelKey, revoked, locals, files, trace, structOut, observed,
                   cancelQueued, cancelMid>>
    /\ GatewayFrame

\* line 192: the loop is over
Finalize(j) ==
    /\ pc[j] = "L147"
    /\ idx[j] >= Len(slides_data[j])
    /\ update_state(j, "PROGRESS", [message |-> "Finalizing PowerPoint..."])
    /\ pc' = [pc EXCEPT ![j] = "L194"]
    /\ http' = NoHttp
    /\ UNCHANGED <<cancelKey, revoked, locals, files, history>>
    /\ GatewayFrame

\* lines 193-194
Render(j) ==
    /\ pc[j] = "L194"
    /\ pptx_buffer' = [pptx_buffer EXCEPT ![j] =
                          generate_pptx(slides_data[j], slide_images[j])]
    /\ Log(j, Event("render", 0, 0))
    /\ pc' = [pc EXCEPT ![j] = "L198"]
    /\ http' = NoHttp
    /\ UNCHANGED <<status, result, cancelKey, revoked, raw_text, max_slides,
                   clean_text, slides_data, slide_images, idx, gen_url, files,
                   structOut, observed, termWrites, cancelQueued, cancelMid>>
    /\ GatewayFrame

\* variant: the name is made and the file is not written
Persist_WritesNothing(j) ==
    /\ pc[j] = "L198"
    /\ Log(j, Event("persist", 0, 0))
    /\ pc' = [pc EXCEPT ![j] = "L201"]
    /\ http' = NoHttp
    /\ UNCHANGED <<status, result, cancelKey, revoked, locals, files, structOut,
                   observed, termWrites, cancelQueued, cancelMid>>
    /\ GatewayFrame

\* lines 196-199: the deck is written to OUTPUT_DIR under a fresh name
Persist(j) ==
    /\ pc[j] = "L198"
    /\ files' = files \cup {[name |-> Filename(j), deck |-> pptx_buffer[j]]}
    /\ Log(j, Event("persist", 0, 0))
    /\ pc' = [pc EXCEPT ![j] = "L201"]
    /\ http' = NoHttp
    /\ UNCHANGED <<status, result, cancelKey, revoked, locals, structOut,
                   observed, termWrites, cancelQueued, cancelMid>>
    /\ GatewayFrame

\* line 201
ReturnSuccess(j) ==
    /\ pc[j] = "L201"
    /\ StoreReturn(j, [status |-> "SUCCESS", filename |-> Filename(j),
                       output_path |-> Filename(j)])
    /\ http' = NoHttp
    /\ UNCHANGED <<cancelKey, revoked, locals, files, trace, structOut, observed,
                   cancelQueued, cancelMid>>
    /\ GatewayFrame

\* variant: a first error of the structurer is retried
WorkflowError_RetriesStructurer(j) ==
    /\ pc[j] \in RaisePoints
    /\ Log(j, Event("raise", LineOf(pc[j]), 0))
    /\ IF pc[j] = "L137" /\ \A k \in 1..Len(trace[j]) : trace[j][k].ev # "raise"
       THEN UNCHANGED <<status, result, termWrites, pc>>
       ELSE /\ update_state(j, "FAILURE", [exc |-> "Exception"])
            /\ termWrites' = [termWrites EXCEPT ![j] = @ + 1]
            /\ pc' = [pc EXCEPT ![j] = "done"]
    /\ http' = NoHttp
    /\ UNCHANGED <<cancelKey, revoked, locals, files, structOut, observed,
                   cancelQueued, cancelMid>>
    /\ GatewayFrame

\* variant: the handler prints the error and does not raise it again, so the
\* workflow returns None
WorkflowError_Swallows(j) ==
    /\ pc[j] \in RaisePoints
    /\ Log(j, Event("raise", LineOf(pc[j]), 0))
    /\ StoreReturn(j, NoResult)
    /\ http' = NoHttp
    /\ UNCHANGED <<cancelKey, revoked, locals, files, structOut, observed,
                   cancelQueued, cancelMid>>
    /\ GatewayFrame

\* lines 203-206: a step of the try block raises; the handler prints and
\* re-raises, and Celery stores FAILURE with the exception
WorkflowError(j) ==
    /\ pc[j] \in RaisePoints
    /\ update_state(j, "FAILURE", [exc |-> "Exception"])
    /\ Log(j, Event("raise", LineOf(pc[j]), 0))
    /\ termWrites' = [termWrites EXCEPT ![j] = @ + 1]
    /\ pc' = [pc EXCEPT ![j] = "done"]
    /\ http' = NoHttp
    /\ UNCHANGED <<cancelKey, revoked, locals, files, structOut, observed,
                   cancelQueued, cancelMid>>
    /\ GatewayFrame

Gateway ==
    \E j \in Jobs :
        \/ generate_pptx_endpoint(j)
        \/ get_task_status(j)
        \/ cancel_task(j)
        \/ download_pptx(j)

Worker ==
    \E j \in Jobs :
        \/ WorkerReceive(j)
        \/ Terminate(j)
        \/ Clean(j)
        \/ Poll134(j)
        \/ Structure(j)
        \/ WorkflowError(j)
        \/ Poll139(j)
        \/ Dedup(j)
        \/ Progress(j)
        \/ Poll155(j)
        \/ Poll166(j)
        \/ Runware(j)
        \/ Poll171(j)
        \/ Download(j)
        \/ Finalize(j)
        \/ Render(j)
        \/ Persist(j)
        \/ ReturnSuccess(j)

Store == \E j \in Jobs : Expire(j)

Init == LifeInit /\ DedupIdle /\ CountIdle /\ TruncIdle
Next == Gateway \/ Worker \/ Store
Spec == Init /\ [][Next]_vars

\* The worker goes on with the run it has started: the process executes the
\* coroutine of generate_pptx_workflow, and each call it awaits returns (or
\* raises, which ends the run as well).
WorkerRun ==
    \E j \in Jobs :
        \/ Clean(j) \/ Poll134(j) \/ Structure(j) \/ Poll139(j) \/ Dedup(j)
        \/ Progress(j) \/ Poll155(j) \/ Poll166(j) \/ Runware(j) \/ Poll171(j)
        \/ Download(j) \/ Finalize(j) \/ Render(j) \/ Persist(j)
        \/ ReturnSuccess(j)

\* one accepted form for each text a job can be made with
FairForms == {Form(NoFile, <<" ", NL, " ">>, 1),
              Form(NoFile, <<" ", "a", " ", NL>>, 1),
              Form(NoFile, T_numbered, 5)}
FairInputs == http.kind = "submit" => (http.code = 200 /\ http.form \in FairForms)

\* The lifecycle as the worker and the store see it: of the gateway, the
\* requests that make a job or write its signal (the accepted submit, and
\* cancel); the requests that leave every job as it is are left out
FairNext ==
    \/ \E j \in Jobs : (generate_pptx_endpoint(j) /\ FairInputs') \/ cancel_task(j)
    \/ Worker
    \/ Store

SpecFair == Init /\ [][FairNext]_vars /\ WF_vars(WorkerRun)

(***************************************************************************)
(* Two jobs side by side: the lifecycle with two ids, one form with content *)
(* and one without, and a structurer that returns one slide or none. The   *)
(* clients ask to cancel one of the two jobs only.                         *)
(***************************************************************************)
IsoJobs == {"a", "b"}
IsoCancelled == {"a"}
IsoForms == {Form(NoFile, <<>>, 1), Form(NoFile, <<" ", "a", " ", NL>>, 1)}
IsoOutputs == {<<>>, <<Slide(1, "abstract background")>>}

\* the requests and structurer answers of this specification
IsoInputs ==
    /\ http.kind = "submit" => http.form \in IsoForms
    /\ \A j \in IsoJobs : slides_data[j] \in IsoOutputs

IsoInit == LifeInitOf(IsoJobs) /\ DedupIdle /\ CountIdle /\ TruncIdle

IsoNext ==
    \E j \in IsoJobs :
        \/ generate_pptx_endpoint(j) /\ IsoInputs'
        \/ j \in IsoCancelled /\ cancel_task(j)
        \/ Expire(j)
        \/ WorkerReceive(j)
        \/ Terminate(j)
        \/ Clean(j)
        \/ Poll134(j)
        \/ Structure(j) /\ IsoInputs'
        \/ WorkflowError(j)
        \/ Poll139(j)
        \/ Dedup(j)
        \/ Progress(j)
        \/ Poll155(j)
        \/ Poll166(j)
        \/ Runware(j)
        \/ Poll171(j)
        \/ Download(j)
        \/ Finalize(j)
        \/ Render(j)
        \/ Persist(j)
        \/ ReturnSuccess(j)

SpecIso == IsoInit /\ [][IsoNext]_vars

(***************************************************************************)
(* fix_duplicate_queries on its own: every slide list up to the bound      *)
(***************************************************************************)
DedupQueries == {"abstract background", "city skyline", fallbacks[1], fallbacks[2]}
\* a list that repeats one query more often than there are fallbacks
\* a slide as the structurer hands it over, with all its fields
FullSlide(k, q) ==
    [title |-> k, visual_query |-> q, bullet_points |-> <<"point", k>>,
     layout |-> IF k % 2 = 1 THEN "center" ELSE "split_left",
     accent_color |-> "6366f1"]
DedupLongInput == [k \in 1..(Len(fallbacks) + 2) |-> FullSlide(k, "abstract background")]
DedupInputs ==
    UNION {{[k \in 1..n |-> FullSlide(k, f[k])] : f \in [1..n -> DedupQueries]} : n \in 0..MaxDedupLen}
        \cup {DedupLongInput}

DedupInit ==
    /\ dd_slides \in DedupInputs
    /\ dd_in = dd_slides
    /\ dd_phase = "in"
    /\ LifeInit /\ CountIdle /\ TruncIdle

DedupCall ==
    /\ dd_phase = "in"
    /\ dd_slides' = fix_duplicate_queries(dd_slides)
    /\ dd_phase' = "out"
    /\ UNCHANGED <<dd_in, lifeVars, cnVars, trVars>>

SpecDedup == DedupInit /\ [][DedupCall]_vars

(***************************************************************************)
(* The slide count handed to the structurer, on its own: every text of up  *)
(* to MaxLines lines taken from CountLines, every hint of CountHints       *)
(***************************************************************************)
CountLines == {
    <<"1", ".">>,
    <<" ", "2", ".", " ", "x">>,
    <<"3", ")", " ", "y">>,
    <<"1", "0", ".", " ", "z">>,
    <<"2", ")", "b">>,
    <<"a">> }
CountHints == {1, 5}

CountTexts == {JoinLines(ls) : ls \in UNION {[1..n -> CountLines] : n \in 0..MaxLines}}

CountInit ==
    /\ cn_text \in CountTexts
    /\ cn_hint \in CountHints
    /\ cn_target = 0
    /\ cn_phase = "in"
    /\ LifeInit /\ DedupIdle /\ TruncIdle

\* generate_pptx_workflow up to the call of the structurer (lines 126-137)
CountCall ==
    /\ cn_phase = "in"
    /\ cn_target' = TargetSlides(cn_text, cn_hint)
    /\ cn_phase' = "out"
    /\ UNCHANGED <<cn_text, cn_hint, lifeVars, ddVars, trVars>>

SpecCount == CountInit /\ [][CountCall]_vars

(***************************************************************************)
(* truncate_content on its own: every text of letters and spaces up to the *)
(* bound, every max_length up to the bound                                 *)
(***************************************************************************)
TruncTexts == UNION {[1..n -> {"a", " "}] : n \in 0..MaxTruncLen}

TruncInit ==
    /\ tr_content \in TruncTexts
    /\ tr_max \in 0..MaxTruncLen
    /\ tr_out = <<>>
    /\ tr_phase = "in"
    /\ LifeInit /\ DedupIdle /\ CountIdle

\* truncate_content(content, max_length)
TruncCall ==
    /\ tr_phase = "in"
    /\ tr_out' = truncate_content(tr_content, tr_max)
    /\ tr_phase' = "out"
    /\ UNCHANGED <<tr_content, tr_max, lifeVars, ddVars, cnVars>>

SpecTrunc == TruncInit /\ [][TruncCall]_vars

(***************************************************************************)
(* Properties                                                              *)
(***************************************************************************)
HasEvent(j, e) == \E k \in 1..Len(trace[j]) : trace[j][k].ev = e
Persisted(j) == \E f \in files : f.name = Filename(j)

\* C1: a job whose cancel was called while it was queued never reaches
\* Success: it never gets past the first poll of the run (no structurer call,
\* no failure of a later step) and, once finished, it is Cancelled.
C1_CancelQueuedNeverSuccess ==
    \A j \in Jobs :
        cancelQueued[j] =>
            /\ JobState(j) \in {"Queued", "Running", "Cancelled"}
            /\ ~HasEvent(j, "structurer")

\* C2: the cancellation signal of a job, once set, is set in every later
\* state: no step of the gateway, the worker or the store clears it.
C2_SignalMonotonic ==
    [][\A j \in Jobs : cancelKey[j] => cancelKey'[j]]_vars

\* C3: a run whose poll saw the signal set has stopped at that poll: the poll
\* is the last event of the run, nothing was persisted, and the job is
\* Cancelled.
C3_ObservedStopsAtPoll ==
    \A j \in Jobs :
        observed[j] =>
            /\ pc[j] = "done"
            /\ JobState(j) = "Cancelled"
            /\ trace[j][Len(trace[j])].ev = "poll"
            /\ ~Persisted(j)

\* C3, witness: a run stopped by the poll that follows a resolver call
C3_Witness ==
    \E j \in Jobs : observed[j] /\ pc[j] = "done" /\ HasEvent(j, "resolver")

\* C4: the status boundary never reports a job that stopped because of
\* cancellation with the status of a job that produced a deck (SUCCESS) nor
\* with that of a failed job (FAILURE).
C4_CancelledHasOwnStatus ==
    (http.kind = "status" /\ observed[http.task_id]) =>
        http.status \notin {"SUCCESS", "FAILURE"}

\* C5: download returns bytes only for a job in Success, and for a job in
\* any other state answers with the not-ready error (400) that names the
\* job's current status.
C5_DownloadOnlyOnSuccess ==
    http.kind = "download" =>
        /\ http.code = 200 => JobState(http.task_id) = "Success"
        /\ JobState(http.task_id) # "Success" =>
              /\ http.code = 400
              /\ http.detail = <<"Task is not finished. Status: ", status[http.task_id]>>

\* C6: a job in Success, Failure or Cancelled stays as it is: no step changes
\* its state or its stored outcome, and the worker does not run it again.
C6_TerminalAbsorbing ==
    [][\A j \in Jobs :
          IsTerminal(j) =>
              /\ status'[j] = status[j]
              /\ result'[j] = result[j]
              /\ pc'[j] = pc[j]]_vars

\* C6, witness: cancel has just been called on a job that ended in Success
C6_Witness ==
    \E j \in Jobs :
        /\ JobState(j) = "Success"
        /\ http.kind = "cancel" /\ http.task_id = j
        /\ cancelKey[j]

\* C7: a run that has ended stored exactly one terminal state, and a run that
\* has not ended stored none.
C7_ExactlyOneTerminal ==
    \A j \in Jobs :
        /\ termWrites[j] <= 1
        /\ pc[j] = "done" => (termWrites[j] = 1 /\ IsTerminal(j))
        /\ pc[j] # "done" => (termWrites[j] = 0 /\ ~IsTerminal(j))

\* C7, witness: a run that ended in Failure after the slides were resolved
C7_Witness ==
    \E j \in Jobs :
        /\ pc[j] = "done" /\ JobState(j) = "Failure"
        /\ HasEvent(j, "append")

\* C8: for a job in Success, whatever the structurer returned, slide_images
\* has one entry per slide, the k-th entry being the outcome for slide k, and
\* the persisted deck has one slide per slide record, in the structurer's
\* order, each with the image of its own position.
C8_OneVisualAndSlidePerRecord ==
    \A j \in Jobs :
        JobState(j) = "Success" =>
            /\ Len(slide_images[j]) = Len(structOut[j])
            /\ \A k \in 1..Len(structOut[j]) :
                  slide_images[j][k] \in {NoImage, ImagePath(k - 1)}
            /\ \E f \in files :
                  /\ f.name = result[j].output_path
                  /\ Len(f.deck) = Len(structOut[j])
                  /\ \A k \in 1..Len(structOut[j]) :
                        /\ f.deck[k].slide.title = structOut[j][k].title
                        /\ f.deck[k].image = slide_images[j][k]

\* C8, witness: Success with two slides where another count was asked for,
\* one slide with an image and one without
C8_Witness ==
    \E j \in Jobs :
        /\ JobState(j) = "Success"
        /\ Len(structOut[j]) = 2 /\ max_slides[j] # 2
        /\ slide_images[j][1] = NoImage /\ slide_images[j][2] # NoImage

RECURSIVE ReplacedFrom(_, _, _, _)
\* the number of slides fix_duplicate_queries rewrites from slide k on
ReplacedFrom(slides, k, seen, fb_idx) ==
    IF k > Len(slides) THEN fb_idx
    ELSE LET q == slides[k].visual_query
         IN IF q \in seen
            THEN ReplacedFrom(slides, k + 1,
                              seen \cup {fallbacks[(fb_idx % Len(fallbacks)) + 1]},
                              fb_idx + 1)
            ELSE ReplacedFrom(slides, k + 1, seen \cup {q}, fb_idx)

\* C9: after fix_duplicate_queries no two slides have the same visual_query,
\* provided no more slides were rewritten than the fallback list has entries.
C9_NoDuplicateQueries ==
    (dd_phase = "out" /\ ReplacedFrom(dd_in, 1, {}, 0) <= Len(fallbacks)) =>
        \A a, b \in 1..Len(dd_slides) :
            a # b => dd_slides[a].visual_query # dd_slides[b].visual_query

RECURSIVE SkipBlank(_, _)
\* the position after the spaces and tabs that start at p
SkipBlank(s, p) ==
    IF p <= Len(s) /\ s[p] \in {" ", "\t"} THEN SkipBlank(s, p + 1) ELSE p

\* a line starts at p with digits, then '.' or ')', then a whitespace character
PointLineAt(s, p) ==
    /\ AtLineStart(s, p)
    /\ LET b == SkipDigits(s, p)
       IN /\ b > p
          /\ b <= Len(s) /\ IsPunct(s[b])
          /\ b + 1 <= Len(s) /\ IsSpace(s[b + 1])

\* the same, the line's own indentation allowed before the digits
IndentedPointLineAt(s, p) ==
    /\ AtLineStart(s, p)
    /\ LET a == SkipBlank(s, p)
           b == SkipDigits(s, a)
       IN /\ b > a
          /\ b <= Len(s) /\ IsPunct(s[b])
          /\ b + 1 <= Len(s) /\ IsSpace(s[b + 1])

EnumeratedPoints(s) == Cardinality({p \in 1..Len(s) : PointLineAt(s, p)})
EnumeratedPointsIndented(s) == Cardinality({p \in 1..Len(s) : IndentedPointLineAt(s, p)})

ClaimedTarget(n, hint) == IF n >= 1 THEN n ELSE hint

\* C10: the structurer is handed exactly N when the normalized text has N >= 1
\* enumerated points, and the caller's max_slides when it has none; N counts
\* the lines that begin with digits followed by '.' or ')' and whitespace,
\* read either with or without indentation before the digits.
C10_TargetIsPointCount ==
    cn_phase = "out" =>
        \/ cn_target = ClaimedTarget(EnumeratedPoints(CleanText(cn_text)), cn_hint)
        \/ cn_target = ClaimedTarget(EnumeratedPointsIndented(CleanText(cn_text)), cn_hint)

\* the run of job j raised, and where
Raised(j) == \E k \in 1..Len(trace[j]) : trace[j][k].ev = "raise"
RaisedAt(j) == {trace[j][k].a : k \in {i \in 1..Len(trace[j]) : trace[j][i].ev = "raise"}}

\* the slides of job j whose visual resolution ended without an image
FailedSlides(j) == {k \in 1..Len(slide_images[j]) : slide_images[j][k] = NoImage}

\* C11: a slide whose visual resolution fails (no URL, failed download) never
\* aborts the job. A run that ends in failure raised at a step other than the
\* image generation (168) and the download (173); once the loop is over there
\* is one entry per slide, failed slides included; and a finished run that
\* neither raised nor was cancelled is a success with its deck persisted.
C11_VisualFailureNeverAborts ==
    \A j \in Jobs :
        /\ JobState(j) = "Failure" =>
              /\ Raised(j)
              /\ RaisedAt(j) \cap {168, 173} = {}
        /\ pc[j] \in {"L194", "L198", "L201"} =>
              Len(slide_images[j]) = Len(slides_data[j])
        /\ (pc[j] = "done" /\ FailedSlides(j) # {} /\ ~Raised(j)
               /\ JobState(j) # "Cancelled") =>
              /\ JobState(j) = "Success"
              /\ Len(slide_images[j]) = Len(slides_data[j])
              /\ Persisted(j)

\* a successful two-slide job whose first slide was left without an image
\* and whose second slide has one
C11_Witness ==
    \E j \in Jobs :
        /\ JobState(j) = "Success"
        /\ Len(slide_images[j]) = 2
        /\ slide_images[j][1] = NoImage
        /\ slide_images[j][2] # NoImage
        /\ Persisted(j)

\* C12: a job that ends Cancelled has had no deck rendered or written and its
\* outcome names no artifact; and a job whose cancel was called while one of
\* its slides was being resolved ends Cancelled, with no deck persisted.
C12_CancelledLeavesNoDeck ==
    \A j \in Jobs :
        /\ JobState(j) = "Cancelled" =>
              /\ ~HasEvent(j, "render")
              /\ ~Persisted(j)
              /\ "filename" \notin DOMAIN result[j]
        /\ (cancelMid[j] /\ pc[j] = "done" /\ ~Raised(j)) =>
              /\ JobState(j) = "Cancelled"
              /\ ~Persisted(j)

\* a form with no content, with a file of an unsupported format, or whose
\* content is empty once extracted and cleaned
EmptyOrUnsupported(form) ==
    IF form.file = NoFile THEN strip(form.html_content) = <<>>
    ELSE \/ form.file.ext \notin {"pdf", "docx", "txt"}
         \/ form.file.readable /\ strip(form.file.text) = <<>>

\* C13: empty or unsupported input is rejected at submission, before any job
\* is created: such a form is answered with an error and no task id, and no
\* job ever holds an empty text.
C13_EmptyInputRejected ==
    /\ (http.kind = "submit" /\ EmptyOrUnsupported(http.form)) =>
          /\ http.code # 200
          /\ "task_id" \notin DOMAIN http
    /\ \A j \in Jobs : pc[j] # "absent" => raw_text[j] # <<>>

CancelStep(j) == http'.kind = "cancel" /\ http'.task_id = j

\* C15, as stated: cancel on a job that has ended is a no-op; it changes
\* neither the job's state and outcome nor any other piece of the system's
\* state (the flag, the worker's revoked set, the files).
C15_CancelOnTerminalNoOp ==
    [][\A j \in Jobs :
          (IsTerminal(j) /\ CancelStep(j)) =>
              UNCHANGED <<pc, status, result, cancelKey, revoked, locals, files,
                          trace>>]_vars

\* C15, amended: cancel on a job that has ended leaves the job's state, its
\* outcome, its run and the persisted decks as they are; it still records the
\* request: the flag of the id is set, and the id may join the revoked set.
C15_CancelOnTerminalKeepsJob ==
    [][\A j \in Jobs :
          (IsTerminal(j) /\ CancelStep(j)) =>
              /\ UNCHANGED <<pc, status, result, locals, files, trace>>
              /\ cancelKey' = [cancelKey EXCEPT ![j] = TRUE]
              /\ revoked' \in {revoked, revoked \cup {j}}]_vars

\* C15, witness: cancel has just been called on a job that ended in Failure,
\* and the flag and the revoked set both hold its id
C15_Witness ==
    \E j \in Jobs :
        /\ JobState(j) = "Failure"
        /\ http.kind = "cancel" /\ http.task_id = j
        /\ cancelKey[j]
        /\ j \in revoked

C17_CooperativeOnly ==
    [][\A j \in Jobs :
          /\ CancelStep(j) => UNCHANGED <<pc, status, result, locals>>
          /\ (Running(j) /\ pc'[j] = "done" /\ JobState(j)' = "Cancelled") =>
                /\ observed'[j]
                /\ trace'[j] # <<>>
                /\ trace'[j][Len(trace'[j])].ev = "poll"]_vars

\* the calls of the structurer in the run of job j: those that returned and
\* those that raised (line 137)
StructurerCalls(j) ==
    {k \in 1..Len(trace[j]) :
        \/ trace[j][k].ev = "structurer"
        \/ trace[j][k].ev = "raise" /\ trace[j][k].a = 137}

\* C18: an error of the structurer ends the job as Failure. The structurer is
\* called at most once in a run; when its call raised, the run is over with
\* that error as its last event, the job is in Failure (not Success, not
\* Cancelled), and no image was resolved, no deck rendered or persisted.
C18_StructurerErrorFails ==
    \A j \in Jobs :
        /\ Cardinality(StructurerCalls(j)) <= 1
        /\ 137 \in RaisedAt(j) =>
              /\ pc[j] = "done"
              /\ JobState(j) = "Failure"
              /\ trace[j][Len(trace[j])] = Event("raise", 137, 0)
              /\ \A e \in {"structurer", "progress", "resolver", "append",
                           "render", "persist"} : ~HasEvent(j, e)
              /\ slide_images[j] = <<>>
              /\ pptx_buffer[j] = <<>>
              /\ ~Persisted(j)

\* C18, witness: the structurer raised and the job is in Failure
C18_Witness ==
    \E j \in Jobs :
        /\ 137 \in RaisedAt(j)
        /\ status[j] = "FAILURE"
        /\ "exc" \in DOMAIN result[j]

\* C19: an exception of any step but the per-slide image generation and
\* download is not swallowed. Once a step has raised, the run is over with
\* that one error as its last event, the job is in Failure and holds the
\* exception, never Success; and the status boundary reports it so.
C19_ErrorsReachFailure ==
    /\ \A j \in Jobs :
          Raised(j) =>
              /\ pc[j] = "done"
              /\ trace[j][Len(trace[j])].ev = "raise"
              /\ \A k \in 1..(Len(trace[j]) - 1) : trace[j][k].ev # "raise"
              /\ JobState(j) = "Failure"
              /\ status[j] = "FAILURE"
              /\ "exc" \in DOMAIN result[j]
    /\ (http.kind = "status" /\ Raised(http.task_id)) =>
          /\ http.status = "FAILURE"
          /\ "exc" \in DOMAIN http.result

\* C19, witness: the write of the deck raised, after the slides were resolved
\* and the deck rendered, and the status boundary reports the failure
C19_Witness ==
    \E j \in Jobs :
        /\ 198 \in RaisedAt(j)
        /\ HasEvent(j, "render")
        /\ http.kind = "status" /\ http.task_id = j /\ http.status = "FAILURE"

\* all that the system holds about job j: its signal, its state and outcome,
\* the locals of its run, its deck and its history
JobVars(j) ==
    <<pc[j], status[j], result[j], cancelKey[j], j \in revoked, raw_text[j],
      max_slides[j], clean_text[j], slides_data[j], slide_images[j], idx[j],
      gen_url[j], pptx_buffer[j], {f \in files : f.name = Filename(j)},
      trace[j], observed[j], termWrites[j]>>

\* C20: jobs are isolated. With two jobs side by side, a step that is a
\* cancel of one job, or that writes anything of one job (progress, outcome,
\* locals, deck), leaves the other job's signal, progress and outcome, and
\* everything else the system holds about it, unchanged.
C20_JobsIsolated ==
    [][\A a \in IsoJobs : \A b \in IsoJobs \ {a} :
          (CancelStep(a) \/ JobVars(a)' # JobVars(a)) =>
              JobVars(b)' = JobVars(b)]_vars

\* C20, witness: job a was cancelled while one of its slides was resolved and
\* ended Cancelled at a poll, and job b, submitted as well, ended in Success
\* with its deck, its flag never set
C20_Witness ==
    /\ cancelMid["a"] /\ observed["a"] /\ JobState("a") = "Cancelled"
    /\ JobState("b") = "Success" /\ Persisted("b")
    /\ ~cancelKey["b"] /\ "b" \notin revoked

\* what the scan has recorded as seen when it reaches slide p: the queries the
\* earlier slides hold after the call
SeenBefore(out, p) == {out[i].visual_query : i \in 1..(p - 1)}

\* the slides up to p whose query was already seen when the scan reached them
RepeatsUpTo(in, out, p) ==
    {i \in 1..p : in[i].visual_query \in SeenBefore(out, i)}

\* C21: the scan goes left to right; the k-th slide whose query is already in
\* the seen set gets fallback number (k-1) mod 20 of the list (counted from
\* 0), which is then seen itself; every other slide keeps its query. The
\* output is a function of the input.
C21_KthRepeatGetsKthFallback ==
    dd_phase = "out" =>
        /\ Len(dd_slides) = Len(dd_in)
        /\ \A p \in 1..Len(dd_in) :
              LET k == Cardinality(RepeatsUpTo(dd_in, dd_slides, p))
              IN  IF p \in RepeatsUpTo(dd_in, dd_slides, p)
                  THEN dd_slides[p].visual_query =
                          fallbacks[((k - 1) % Len(fallbacks)) + 1]
                  ELSE dd_slides[p].visual_query = dd_in[p].visual_query

\* C21, witness: two slides with the same query; the second one now holds the
\* first fallback
C21_Witness ==
    /\ dd_phase = "out"
    /\ Len(dd_in) = 2
    /\ dd_in[1].visual_query = "abstract background"
    /\ dd_in[2].visual_query = "abstract background"
    /\ dd_slides[1].visual_query = "abstract background"
    /\ dd_slides[2].visual_query = fallbacks[1]

\* the positions of the events named e in the run of job j
EventsAt(j, e) == {k \in 1..Len(trace[j]) : trace[j][k].ev = e}

\* C22: in the visual loop the events of slide i (0-based, of n) come in this
\* order: progress (i+1, n), a poll, the resolver for slide i, a poll, the
\* append of the result. The resolver for slide i is called only after the
\* result of slide i-1 was appended: at most one resolution is in flight,
\* and the results are appended in slide order.
C22_LoopEventOrder ==
    \A j \in Jobs :
        LET t == trace[j]
            n == Len(slides_data[j])
        IN  /\ \A k \in EventsAt(j, "resolver") :
                  LET i == t[k].a
                  IN  /\ k > 2
                      /\ t[k - 1].ev = "poll"
                      /\ \E p \in 1..(k - 2) :
                            /\ t[p] = Event("progress", i + 1, n)
                            /\ \A m \in (p + 1)..(k - 1) : t[m].ev = "poll"
                      /\ i > 0 => \E a \in 1..(k - 1) : t[a] = Event("append", i - 1, 0)
                      /\ Cardinality({r \in EventsAt(j, "resolver") : r < k}) = i
            /\ \A k \in EventsAt(j, "append") :
                  /\ k > 2
                  /\ t[k - 1].ev = "poll"
                  /\ t[k - 2] = Event("resolver", t[k].a, 0)
                  /\ Cardinality({a \in EventsAt(j, "append") : a < k}) = t[k].a
            /\ Cardinality(EventsAt(j, "append")) = Len(slide_images[j])
            /\ Cardinality(EventsAt(j, "resolver"))
                  - Cardinality(EventsAt(j, "append")) \in {0, 1}

\* C22, witness: the resolver has been called for the second slide, after the
\* first slide's result was appended
C22_Witness ==
    \E j \in Jobs :
        /\ pc[j] = "L171"
        /\ idx[j] = 1
        /\ Len(slide_images[j]) = 1
        /\ trace[j][Len(trace[j])] = Event("resolver", 1, 0)

\* the steps that follow the first check of a run
LaterSteps == {"structurer", "progress", "resolver", "append", "render", "persist"}

\* C23: when the signal is set as normalization and point counting are done
\* (the run stands at the check of line 134), the next step of the run ends
\* it: as Cancelled, unless the check itself raised; the structurer, the
\* resolver, the renderer and the file write are not called, then or later.
C23_CancelAfterCleanSkipsAll ==
    [][\A j \in Jobs :
          /\ (pc[j] = "L134" /\ is_task_cancelled(j) /\ pc'[j] # pc[j]) =>
                /\ pc'[j] = "done"
                /\ Raised(j)' \/ JobState(j)' = "Cancelled"
          /\ (pc[j] = "done" /\ observed[j] /\ trace[j] = <<Event("poll", 0, 0)>>) =>
                /\ JobState(j) = "Cancelled"
                /\ \A e \in LaterSteps : ~HasEvent(j, e)' /\ ~HasEvent(j, e)
                /\ structOut'[j] = <<>>
                /\ ~Persisted(j)'
                /\ trace'[j] = trace[j]]_vars

\* C23, witness: cancel was called while the text was cleaned, the check of
\* line 134 saw the signal and the run ended there
C23_Witness ==
    \E j \in Jobs :
        /\ pc[j] = "done" /\ observed[j]
        /\ ~cancelQueued[j]
        /\ trace[j] = <<Event("poll", 0, 0)>>
        /\ result[j] = [status |-> "CANCELLED"]

\* C24: a job is in Success only after its deck was written to the output
\* directory under the name made for that run, and the outcome names exactly
\* that file: the file is there, holds the deck the run rendered, and the
\* write is the last event of the run, after the rendering.
C24_SuccessHasPersistedDeck ==
    \A j \in Jobs :
        JobState(j) = "Success" =>
            /\ "filename" \in DOMAIN result[j] /\ "output_path" \in DOMAIN result[j]
            /\ result[j].filename = Filename(j)
            /\ result[j].output_path = Filename(j)
            /\ [name |-> result[j].output_path,
                deck |-> generate_pptx(slides_data[j], slide_images[j])] \in files
            /\ Cardinality({f \in files : f.name = result[j].output_path}) = 1
            /\ Len(trace[j]) >= 2
            /\ trace[j][Len(trace[j])].ev = "persist"
            /\ trace[j][Len(trace[j]) - 1].ev = "render"

\* C24, witness: a job in Success whose deck of two slides has just been
\* downloaded
C24_Witness ==
    \E j \in Jobs :
        /\ JobState(j) = "Success"
        /\ http.kind = "download" /\ http.task_id = j /\ http.code = 200
        /\ Len(http.bytes) = 2
        /\ http.filename = Filename(j)

\* C25: no job stays in Running forever. With the worker going on with the
\* run and every call it awaits returning or raising, a job that is running
\* reaches Success, Failure or Cancelled, whether cancel is called or not and
\* wherever it is called.
C25_RunningTerminates ==
    \A j \in Jobs : Running(j) ~> IsTerminal(j)

\* C25, witness: a job whose cancel was called while a slide was resolved and
\* that has ended all the same, here in Success
C25_Witness ==
    \E j \in Jobs :
        /\ cancelMid[j]
        /\ pc[j] = "done"
        /\ JobState(j) = "Success"

\* C26: truncate_content returns the content as it is when it is no longer
\* than max_length, and otherwise a text of at most max_length characters.
C26_TruncatedFits ==
    tr_phase = "out" =>
        /\ Len(tr_content) <= tr_max => tr_out = tr_content
        /\ Len(tr_out) <= tr_max

\* the run of job j is past its last check of the signal: past the check of
\* line 171 for the last slide, or past the check of line 139 when the
\* structurer returned no slide
PastLastPoll(j) ==
    \/ pc[j] \in {"L194", "L198", "L201"}
    \/ pc[j] = "L173" /\ idx[j] = Len(slides_data[j]) - 1
    \/ pc[j] = "L147" /\ idx[j] >= Len(slides_data[j])
    \/ pc[j] = "L141" /\ slides_data[j] = <<>>

\* C27: there is no check of the signal after the one that follows the
\* resolver for the last slide. A run that is past it (in the last slide's
\* download, in the rendering, in the file write; or anywhere past the check
\* of line 139 with no slides) goes on to persist its deck and to end in
\* Success, whether the signal is set or not, unless one of its steps raises.
C27_LateCancelStillSucceeds ==
    [][\A j \in Jobs :
          (PastLastPoll(j) /\ pc'[j] # pc[j] /\ ~Raised(j)') =>
              \/ PastLastPoll(j)'
              \/ /\ pc'[j] = "done"
                 /\ JobState(j)' = "Success"
                 /\ Persisted(j)']_vars

\* C28: the progress counters are well formed. Whenever the stored progress
\* of a job carries counters, total is the number of slides the structurer
\* returned and 1 <= current <= total; the reports of one run carry current
\* = 1, 2, 3, ... in this order, each with that same total; and the status
\* boundary hands out what is stored.
C28_ProgressCountersWellFormed ==
    /\ \A j \in Jobs :
          /\ "current" \in DOMAIN result[j] =>
                /\ result[j].total = Len(structOut[j])
                /\ 1 <= result[j].current /\ result[j].current <= result[j].total
                /\ result[j].current = Cardinality(EventsAt(j, "progress"))
          /\ \A k \in EventsAt(j, "progress") :
                /\ trace[j][k].a = Cardinality({p \in EventsAt(j, "progress") : p <= k})
                /\ trace[j][k].b = Len(structOut[j])
                /\ trace[j][k].a <= trace[j][k].b
    /\ (http.kind = "status" /\ "current" \in DOMAIN http.result) =>
          /\ http.status = "PROGRESS"
          /\ http.result = result[http.task_id]

\* C28, witness: the status boundary reports slide 2 of 2
C28_Witness ==
    \E j \in Jobs :
        /\ http.kind = "status" /\ http.task_id = j
        /\ "current" \in DOMAIN http.result
        /\ http.result.current = 2 /\ http.result.total = 2
        /\ Len(structOut[j]) = 2

\* C29: fix_duplicate_queries changes nothing but the visual_query of the
\* slides that repeat: as many slides as before, in the same order, each with
\* the fields it had (title, bullet points, layout, accent colour), and a
\* slide whose query had not been seen when the scan reached it, the first
\* slide among them, keeps its query.
C29_DedupFrame ==
    dd_phase = "out" =>
        /\ Len(dd_slides) = Len(dd_in)
        /\ \A p \in 1..Len(dd_in) :
              /\ DOMAIN dd_slides[p] = DOMAIN dd_in[p]
              /\ \A f \in DOMAIN dd_in[p] \ {"visual_query"} :
                    dd_slides[p][f] = dd_in[p][f]
              /\ dd_in[p].visual_query \notin SeenBefore(dd_slides, p) =>
                    dd_slides[p].visual_query = dd_in[p].visual_query
        /\ Len(dd_in) > 0 => dd_slides[1] = dd_in[1]

\* C29, witness: of three slides the third repeated a query and was given a
\* fallback, and kept its title and bullet points
C29_Witness ==
    /\ dd_phase = "out"
    /\ Len(dd_in) = 3
    /\ dd_in[3].visual_query = dd_in[1].visual_query
    /\ dd_in[2].visual_query # dd_in[1].visual_query
    /\ dd_slides[3].visual_query = fallbacks[1]
    /\ dd_slides[3].title = 3
    /\ dd_slides[3].bullet_points = dd_in[3].bullet_points

\* the structurer of job j has returned, and returned no slide
EmptyDeck(j) == HasEvent(j, "structurer") /\ structOut[j] = <<>>

\* C30: when the structurer returns an empty list, the run never calls the
\* resolver and reports no per-slide progress; if it ends without having
\* raised and without the job being Cancelled, it has rendered and persisted
\* a deck of zero slides and the job is in Success, not in Failure.
C30_EmptyDeckSucceeds ==
    \A j \in Jobs :
        EmptyDeck(j) =>
            /\ ~HasEvent(j, "resolver") /\ ~HasEvent(j, "append")
            /\ ~HasEvent(j, "progress")
            /\ "current" \notin DOMAIN result[j]
            /\ slide_images[j] = <<>>
            /\ JobState(j) = "Failure" => Raised(j)
            /\ (pc[j] = "done" /\ ~Raised(j) /\ JobState(j) # "Cancelled") =>
                  /\ JobState(j) = "Success"
                  /\ HasEvent(j, "render") /\ HasEvent(j, "persist")
                  /\ [name |-> Filename(j), deck |-> <<>>] \in files
                  /\ result[j].filename = Filename(j)

\* C30, witness: a job in Success whose structurer returned no slide and
\* whose persisted deck has no slide
C30_Witness ==
    \E j \in Jobs :
        /\ EmptyDeck(j)
        /\ JobState(j) = "Success"
        /\ ~observed[j]
        /\ [name |-> Filename(j), deck |-> <<>>] \in files

====
